---- MODULE Spec2Model ----
(***************************************************************************)
(* Model of src/utils/config.py: configuration loading from the process    *)
(* environment into validated pydantic records.                            *)
(*                                                                         *)
(* Environment strings that the code only compares or passes through       *)
(* (OPENAI_API_KEY, OPENAI_MODEL, MEMORY_TYPE, MEMORY_COLLECTION_NAME) are  *)
(* TLA+ strings.  Environment strings that the code converts (int(),       *)
(* float(), .lower(), Path()) are sequences of one-character strings, so   *)
(* that the conversion is computed character by character.                 *)
(* A mapping (os.environ, the .env file) is a function whose DOMAIN is the  *)
(* set of variables that are set.                                          *)
(***************************************************************************)
EXTENDS Integers, Sequences, FiniteSets, TLC

\* ------------------------------------------------------------------ bounds
MaxWrites == 3    \* environment / .env edits made by the host in one run
MaxLoads == 2     \* Config.load() calls made by the host after the import
MaxNumLen == 2    \* length of the enumerated numeric environment strings
MaxBoolLen == 4   \* length of the enumerated boolean environment strings

\* ------------------------------------------------------- names and literals
Sentinel == "your_openai_api_key_here"

Vars ==
  {"OPENAI_API_KEY", "OPENAI_MODEL", "OPENAI_TEMPERATURE", "MAX_TOKENS",
   "AGENT_MAX_ITERATIONS", "AGENT_MAX_EXECUTION_TIME", "AGENT_VERBOSE",
   "MEMORY_TYPE", "MEMORY_COLLECTION_NAME", "MEMORY_PERSIST_DIRECTORY",
   "MAX_COST_PER_REQUEST", "ENABLE_COST_TRACKING"}

NoError == "none"
FloatError == "ValueError: could not convert string to float"
IntError == "ValueError: invalid literal for int() with base 10"
KeyError == "Valid OpenAI API key required"
IterationsError == "Max iterations must be between 1 and 50"

\* The literal defaults passed to os.getenv.
DefaultTemperature == <<"0", ".", "0">>
DefaultMaxTokens == <<"4", "0", "9", "6">>
DefaultMaxIterations == <<"1", "0">>
DefaultMaxExecutionTime == <<"3", "0", "0">>
DefaultTrue == <<"t", "r", "u", "e">>
DefaultPersistDirectory ==
  <<".", "/", "d", "a", "t", "a", "/", "m", "e", "m", "o", "r", "y">>
DefaultMaxCost == <<"1", ".", "0", "0">>

\* ---------------------------------------------------------------- mappings
EmptyMap == <<>>

\* os.getenv(name, default)
Getenv(e, name, default) == IF name \in DOMAIN e THEN e[name] ELSE default

\* os.environ[name] = val
Put(e, name, val) ==
  [v \in DOMAIN e \cup {name} |-> IF v = name THEN val ELSE e[v]]

\* del os.environ[name]
Remove(e, name) == [v \in DOMAIN e \ {name} |-> e[v]]

\* ----------------------------------------------------------- str -> number
Digits == {"0", "1", "2", "3", "4", "5", "6", "7", "8", "9"}

DigitVal(c) ==
  CASE c = "0" -> 0 [] c = "1" -> 1 [] c = "2" -> 2 [] c = "3" -> 3
    [] c = "4" -> 4 [] c = "5" -> 5 [] c = "6" -> 6 [] c = "7" -> 7
    [] c = "8" -> 8 [] c = "9" -> 9

RECURSIVE StripLeft(_)
StripLeft(s) ==
  IF s # <<>> /\ Head(s) = " " THEN StripLeft(Tail(s)) ELSE s

RECURSIVE StripRight(_)
StripRight(s) ==
  IF s # <<>> /\ s[Len(s)] = " "
    THEN StripRight(SubSeq(s, 1, Len(s) - 1))
    ELSE s

Strip(s) == StripRight(StripLeft(s))

\* A digit group of a numeric literal: digits, single underscores between them.
DigitGroup(s) ==
  /\ Len(s) > 0
  /\ \A i \in 1..Len(s) : s[i] \in Digits \cup {"_"}
  /\ s[1] \in Digits
  /\ s[Len(s)] \in Digits
  /\ \A i \in 1..(Len(s) - 1) : ~(s[i] = "_" /\ s[i + 1] = "_")

NotUnderscore(c) == c # "_"

RECURSIVE DecimalValue(_)
DecimalValue(s) ==
  IF s = <<>> THEN 0
  ELSE 10 * DecimalValue(SubSeq(s, 1, Len(s) - 1)) + DigitVal(s[Len(s)])

HasSign(s) == s # <<>> /\ Head(s) \in {"+", "-"}

Unsigned(s) == IF HasSign(s) THEN Tail(s) ELSE s

\* int(s) for a str s, base 10: surrounding whitespace, an optional sign, one
\* digit group.  ok = FALSE stands for the ValueError.
ParseInt(s) ==
  LET t == Strip(s)
      body == Unsigned(t)
      mag == DecimalValue(SelectSeq(body, NotUnderscore))
  IN  IF DigitGroup(body)
        THEN [ok |-> TRUE, val |-> IF HasSign(t) /\ Head(t) = "-" THEN -mag ELSE mag]
        ELSE [ok |-> FALSE, val |-> 0]

RECURSIVE DropTrailingZeros(_)
DropTrailingZeros(s) ==
  IF s # <<>> /\ s[Len(s)] = "0"
    THEN DropTrailingZeros(SubSeq(s, 1, Len(s) - 1))
    ELSE s

\* A float is the decimal m * 10^(-e) normalised: no trailing zero in the
\* fraction, and zero is [m |-> 0, e |-> 0] (-0.0 == 0.0 in Python).
Float(m, e) == [m |-> m, e |-> e]

\* float(s) for a str s made of whitespace, sign, digits, underscores and the
\* decimal point: [digits][.[digits]] with at least one digit group.  Every
\* other character makes the literal invalid (the exponent and the inf / nan
\* spellings are not among the strings enumerated here).
ParseFloat(s) ==
  LET t == Strip(s)
      body == Unsigned(t)
      dots == {i \in 1..Len(body) : body[i] = "."}
      dot == IF dots = {} THEN Len(body) + 1 ELSE CHOOSE i \in dots : TRUE
      whole == SubSeq(body, 1, dot - 1)
      frac == SubSeq(body, dot + 1, Len(body))
      wellFormed ==
        /\ Cardinality(dots) <= 1
        /\ whole = <<>> \/ DigitGroup(whole)
        /\ frac = <<>> \/ DigitGroup(frac)
        /\ whole # <<>> \/ frac # <<>>
      fdigits == DropTrailingZeros(SelectSeq(frac, NotUnderscore))
      mag == DecimalValue(SelectSeq(whole, NotUnderscore) \o fdigits)
  IN  IF wellFormed
        THEN [ok |-> TRUE,
              val |-> Float(IF HasSign(t) /\ Head(t) = "-" THEN -mag ELSE mag,
                            IF mag = 0 THEN 0 ELSE Len(fdigits))]
        ELSE [ok |-> FALSE, val |-> Float(0, 0)]

\* ------------------------------------------------------------- str -> bool
LowerChar(c) ==
  CASE c = "T" -> "t" [] c = "R" -> "r" [] c = "U" -> "u" [] c = "E" -> "e"
    [] c = "F" -> "f" [] c = "A" -> "a" [] c = "L" -> "l" [] c = "S" -> "s"
    [] c = "Y" -> "y" [] OTHER -> c

\* str.lower()
Lower(s) == [i \in 1..Len(s) |-> LowerChar(s[i])]

\* Faulty variant: the comparison without .lower().
IsTrueCaseSensitive(s) == s = <<"t", "r", "u", "e">>

\* s.lower() == 'true'
IsTrue(s) == Lower(s) = <<"t", "r", "u", "e">>

\* ------------------------------------------------------------- str -> Path
RECURSIVE Split(_)
\* s.split('/')
Split(s) ==
  IF s = <<>> THEN << <<>> >>
  ELSE LET rest == Split(Tail(s))
       IN  IF Head(s) = "/"
             THEN << <<>> >> \o rest
             ELSE << <<Head(s)>> \o Head(rest) >> \o Tail(rest)

RECURSIVE LeadingSlashes(_)
LeadingSlashes(s) ==
  IF s # <<>> /\ Head(s) = "/" THEN 1 + LeadingSlashes(Tail(s)) ELSE 0

KeptComponent(c) == c # <<>> /\ c # <<".">>

\* pathlib.Path(s) on POSIX: the root ('', '/' or '//') and the components,
\* with empty and '.' components dropped.
PathOf(s) ==
  [root |-> IF LeadingSlashes(s) = 2 THEN "//"
            ELSE IF LeadingSlashes(s) > 0 THEN "/" ELSE "",
   parts |-> SelectSeq(Split(s), KeptComponent)]

\* ------------------------------------------------------------ validators
\* OpenAIConfig.validate_api_key: TRUE when v is returned, FALSE when the
\* ValueError is raised.
\* Faulty variant: the empty key is accepted.
validate_api_key_sentinel_only(v) == v # Sentinel

validate_api_key(v) == ~(v = "" \/ v = Sentinel)

\* AgentConfig.validate_iterations: TRUE when v is returned.
\* Faulty variant: the bounds 1 and 50 are rejected.
validate_iterations_exclusive(v) == ~(v <= 1 \/ v >= 50)

validate_iterations(v) == ~(v < 1 \/ v > 50)

\* ------------------------------------------- the four defaults of Config
\* Each XError(e) is the exception raised while the default is evaluated in
\* environment e (argument expressions first, left to right, then the
\* pydantic validators), NoError when the record is built; XConfig(e) is
\* the record built.

OpenAIError(e) ==
  IF ~ParseFloat(Getenv(e, "OPENAI_TEMPERATURE", DefaultTemperature)).ok
    THEN FloatError
  ELSE IF ~ParseInt(Getenv(e, "MAX_TOKENS", DefaultMaxTokens)).ok
    THEN IntError
  ELSE IF ~validate_api_key(Getenv(e, "OPENAI_API_KEY", Sentinel))
    THEN KeyError
  ELSE NoError

OpenAIConfig(e) ==
  [api_key |-> Getenv(e, "OPENAI_API_KEY", Sentinel),
   model |-> Getenv(e, "OPENAI_MODEL", "gpt-4-turbo-preview"),
   temperature |->
     ParseFloat(Getenv(e, "OPENAI_TEMPERATURE", DefaultTemperature)).val,
   max_tokens |-> ParseInt(Getenv(e, "MAX_TOKENS", DefaultMaxTokens)).val]

\* Faulty variant: the range validator is not applied.
AgentErrorNoRange(e) ==
  IF ~ParseInt(Getenv(e, "AGENT_MAX_ITERATIONS", DefaultMaxIterations)).ok
       \/ ~ParseInt(Getenv(e, "AGENT_MAX_EXECUTION_TIME",
                           DefaultMaxExecutionTime)).ok
    THEN IntError
  ELSE NoError

AgentError(e) ==
  IF ~ParseInt(Getenv(e, "AGENT_MAX_ITERATIONS", DefaultMaxIterations)).ok
       \/ ~ParseInt(Getenv(e, "AGENT_MAX_EXECUTION_TIME",
                           DefaultMaxExecutionTime)).ok
    THEN IntError
  ELSE IF ~validate_iterations(
            ParseInt(Getenv(e, "AGENT_MAX_ITERATIONS",
                            DefaultMaxIterations)).val)
    THEN IterationsError
  ELSE NoError

\* Faulty variant: max_execution_time reads AGENT_MAX_ITERATIONS.
AgentConfigSwapped(e) ==
  [max_iterations |->
     ParseInt(Getenv(e, "AGENT_MAX_ITERATIONS", DefaultMaxIterations)).val,
   max_execution_time |->
     ParseInt(Getenv(e, "AGENT_MAX_ITERATIONS", DefaultMaxExecutionTime)).val,
   verbose |-> IsTrue(Getenv(e, "AGENT_VERBOSE", DefaultTrue))]

AgentConfig(e) ==
  [max_iterations |->
     ParseInt(Getenv(e, "AGENT_MAX_ITERATIONS", DefaultMaxIterations)).val,
   max_execution_time |->
     ParseInt(Getenv(e, "AGENT_MAX_EXECUTION_TIME",
                     DefaultMaxExecutionTime)).val,
   verbose |-> IsTrue(Getenv(e, "AGENT_VERBOSE", DefaultTrue))]

MemoryConfig(e) ==
  [memory_type |-> Getenv(e, "MEMORY_TYPE", "chromadb"),
   collection_name |-> Getenv(e, "MEMORY_COLLECTION_NAME", "agent_memory"),
   persist_directory |->
     PathOf(Getenv(e, "MEMORY_PERSIST_DIRECTORY", DefaultPersistDirectory))]

\* Faulty variant: an unparseable cost is replaced instead of raised.
CostErrorSubstituted(e) == NoError

CostError(e) ==
  IF ~ParseFloat(Getenv(e, "MAX_COST_PER_REQUEST", DefaultMaxCost)).ok
    THEN FloatError
  ELSE NoError

CostConfig(e) ==
  [max_cost_per_request |->
     ParseFloat(Getenv(e, "MAX_COST_PER_REQUEST", DefaultMaxCost)).val,
   enable_cost_tracking |->
     IsTrue(Getenv(e, "ENABLE_COST_TRACKING", DefaultTrue))]

\* Config(): an instance whose four fields are copies of the class defaults.
Config(f) ==
  [openai |-> f["openai"], agent |-> f["agent"],
   memory |-> f["memory"], cost |-> f["cost"]]

\* Config.load(): return cls()
load(f) == Config(f)

\* load_dotenv(): the variables of the .env file are added to os.environ;
\* a variable already set keeps its value (override=False).
\* Faulty variant: load_dotenv(override=True).
load_dotenv_override(e, file) ==
  [v \in DOMAIN e \cup DOMAIN file |->
     IF v \in DOMAIN file THEN file[v] ELSE e[v]]

load_dotenv(e, file) ==
  [v \in DOMAIN e \cup DOMAIN file |->
     IF v \in DOMAIN e THEN e[v] ELSE file[v]]

\* ------------------------------------------------- enumerated input strings
StringsUpTo(alphabet, n) == UNION {[1..k -> alphabet] : k \in 0..n}

NumAlphabet == {"0", "1", "5", "-", ".", "a"}

NumStrings ==
  StringsUpTo(NumAlphabet, MaxNumLen)
    \cup {<<" ", "5">>, <<"+", "5">>, <<"1", "_", "0">>, <<"_", "1">>}

BoolAlphabet == {"t", "T", "r", "u", "e"}

BoolStrings ==
  StringsUpTo(BoolAlphabet, MaxBoolLen)
    \cup {<<"1">>, <<"y", "e", "s">>, <<"f", "a", "l", "s", "e">>,
          <<"F", "A", "L", "S", "E">>, <<"T", "R", "U", "E">>}

\* The values the host process gives a variable in the life-cycle runs.
EnvValues(x) ==
  CASE x = "OPENAI_API_KEY" -> {"", Sentinel, "sk-env"}
    [] x = "OPENAI_MODEL" -> {"gpt-4o"}
    [] x = "OPENAI_TEMPERATURE" -> {<<"0", ".", "5">>, <<"a">>}
    [] x = "MAX_TOKENS" -> {<<"1", "5">>, <<"1", ".", "5">>}
    [] x = "AGENT_MAX_ITERATIONS" -> {<<"5", "0">>, <<"5", "1">>}
    [] x = "AGENT_MAX_EXECUTION_TIME" -> {<<>>, <<"5">>}
    [] x = "AGENT_VERBOSE" -> {<<"f", "a", "l", "s", "e">>}
    [] x = "MEMORY_TYPE" -> {"redis"}
    [] x = "MEMORY_COLLECTION_NAME" -> {"c1"}
    [] x = "MEMORY_PERSIST_DIRECTORY" -> {<<"/", "d", "/">>}
    [] x = "MAX_COST_PER_REQUEST" -> {<<"5", ".">>, <<"-">>}
    [] x = "ENABLE_COST_TRACKING" -> {<<"T", "r", "u", "e">>}

\* The lines a .env file holds in the life-cycle runs.
DotenvValues(x) ==
  CASE x = "OPENAI_API_KEY" -> {"sk-file"}
    [] x = "AGENT_MAX_ITERATIONS" -> {<<"1">>}
    [] x = "AGENT_VERBOSE" -> {<<"T", "R", "U", "E">>}
    [] OTHER -> {}

\* ------------------------------------------------------------------- state
VARIABLES
  environ,     \* os.environ
  dotenv,      \* the variables of the .env file (EmptyMap: no file)
  pc,          \* position of the import of the module
  fields,      \* namespace of the body of class Config: attribute -> default
  config,      \* the module global: <<>> unbound, <<c>> bound to c
  error,       \* the exception that ended the import, NoError otherwise
  loads,       \* Config.load() calls of the host: environment and result
  writes,      \* edits made by the host so far
  procEnv,     \* os.environ when load_dotenv() was called
  importEnv    \* os.environ when load_dotenv() returned

vars ==
  <<environ, dotenv, pc, fields, config, error, loads, writes, procEnv,
    importEnv>>

\* ------------------------------------------------------- the host process
\* os.environ[x] = val, before the module is imported or after.
SetEnv ==
  \E x \in Vars : \E val \in EnvValues(x) :
    /\ pc \in {"start", "ready"}
    /\ writes < MaxWrites
    /\ environ' = Put(environ, x, val)
    /\ writes' = writes + 1
    /\ UNCHANGED <<dotenv, pc, fields, config, error, loads, procEnv,
                   importEnv>>

\* del os.environ[x]
UnsetEnv ==
  \E x \in DOMAIN environ :
    /\ pc \in {"start", "ready"}
    /\ writes < MaxWrites
    /\ environ' = Remove(environ, x)
    /\ writes' = writes + 1
    /\ UNCHANGED <<dotenv, pc, fields, config, error, loads, procEnv,
                   importEnv>>

\* A line x=val is written to the .env file before the module is imported.
EditDotenv ==
  \E x \in Vars : \E val \in DotenvValues(x) :
    /\ pc = "start"
    /\ writes < MaxWrites
    /\ dotenv' = Put(dotenv, x, val)
    /\ writes' = writes + 1
    /\ UNCHANGED <<environ, pc, fields, config, error, loads, procEnv,
                   importEnv>>

\* ------------------------------------------------- the import of the module
\* line 10: load_dotenv()
LoadDotenv ==
  /\ pc = "start"
  /\ environ' = load_dotenv(environ, dotenv)
  /\ procEnv' = environ
  /\ importEnv' = environ'
  /\ pc' = "openai"
  /\ UNCHANGED <<dotenv, fields, config, error, loads, writes>>

\* An exception leaves the class body: the import ends, the namespace of the
\* class body is dropped, the global is never bound.
Raise(err) ==
  /\ pc' = "failed"
  /\ error' = err
  /\ fields' = EmptyMap
  /\ UNCHANGED <<environ, dotenv, config, loads, writes, procEnv, importEnv>>

Bind(attr, val, next) ==
  /\ pc' = next
  /\ fields' = Put(fields, attr, val)
  /\ UNCHANGED <<environ, dotenv, config, error, loads, writes, procEnv,
                 importEnv>>

\* lines 50-55: openai: OpenAIConfig = OpenAIConfig(...)
BuildOpenAI ==
  /\ pc = "openai"
  /\ IF OpenAIError(environ) # NoError
       THEN Raise(OpenAIError(environ))
       ELSE Bind("openai", OpenAIConfig(environ), "agent")

\* lines 56-60: agent: AgentConfig = AgentConfig(...)
BuildAgent ==
  /\ pc = "agent"
  /\ IF AgentError(environ) # NoError
       THEN Raise(AgentError(environ))
       ELSE Bind("agent", AgentConfig(environ), "memory")

\* lines 61-65: memory: MemoryConfig = MemoryConfig(...)
BuildMemory ==
  /\ pc = "memory"
  /\ Bind("memory", MemoryConfig(environ), "cost")

\* lines 66-69: cost: CostConfig = CostConfig(...); the class is then created.
BuildCost ==
  /\ pc = "cost"
  /\ IF CostError(environ) # NoError
       THEN Raise(CostError(environ))
       ELSE Bind("cost", CostConfig(environ), "class")

\* line 77: config = Config.load()
GlobalLoad ==
  /\ pc = "class"
  /\ config' = <<load(fields)>>
  /\ pc' = "ready"
  /\ UNCHANGED <<environ, dotenv, fields, error, loads, writes, procEnv,
                 importEnv>>

\* ------------------------------------------------ calls made after the import
\* Faulty variant: load() rebinds the module global to a configuration read from the
\* environment of the call.
CallLoadRebind ==
  /\ pc = "ready"
  /\ Len(loads) < MaxLoads
  /\ OpenAIError(environ) = NoError
  /\ AgentError(environ) = NoError
  /\ CostError(environ) = NoError
  /\ config' = <<[openai |-> OpenAIConfig(environ),
                  agent |-> AgentConfig(environ),
                  memory |-> MemoryConfig(environ),
                  cost |-> CostConfig(environ)]>>
  /\ loads' = Append(loads, [env |-> environ, cfg |-> config'[1]])
  /\ UNCHANGED <<environ, dotenv, pc, fields, error, writes, procEnv,
                 importEnv>>

\* Faulty variant: load() writes a default back to the environment.
CallLoadSetdefault ==
  /\ pc = "ready"
  /\ Len(loads) < MaxLoads
  /\ loads' = Append(loads, [env |-> environ, cfg |-> load(fields)])
  /\ environ' = Put(environ, "AGENT_VERBOSE",
                    Getenv(environ, "AGENT_VERBOSE", DefaultTrue))
  /\ UNCHANGED <<dotenv, pc, fields, config, error, writes, procEnv,
                 importEnv>>

\* The host calls Config.load(); the call and its result are recorded.
CallLoad ==
  /\ pc = "ready"
  /\ Len(loads) < MaxLoads
  /\ loads' = Append(loads, [env |-> environ, cfg |-> load(fields)])
  /\ UNCHANGED <<environ, dotenv, pc, fields, config, error, writes, procEnv,
                 importEnv>>

\* ---------------------------------------------------------- specifications
Init ==
  /\ environ = EmptyMap
  /\ dotenv = EmptyMap
  /\ pc = "start"
  /\ fields = EmptyMap
  /\ config = <<>>
  /\ error = NoError
  /\ loads = <<>>
  /\ writes = 0
  /\ procEnv = EmptyMap
  /\ importEnv = EmptyMap

Next ==
  \/ SetEnv
  \/ UnsetEnv
  \/ EditDotenv
  \/ LoadDotenv
  \/ BuildOpenAI
  \/ BuildAgent
  \/ BuildMemory
  \/ BuildCost
  \/ GlobalLoad
  \/ CallLoad

Spec == Init /\ [][Next]_vars

\* Coercion runs: the import alone, from every environment made of a
\* credential choice, one variable holding any enumerated string, and a few
\* settings of other variables.
NumVars ==
  {"OPENAI_TEMPERATURE", "MAX_TOKENS", "AGENT_MAX_ITERATIONS",
   "AGENT_MAX_EXECUTION_TIME", "MAX_COST_PER_REQUEST"}

BoolVars == {"AGENT_VERBOSE", "ENABLE_COST_TRACKING"}

KeyEnvs ==
  {EmptyMap}
    \cup {Put(EmptyMap, "OPENAI_API_KEY", k) : k \in {"", Sentinel, "sk-env"}}

SideEnvs ==
  {EmptyMap,
   Put(Put(EmptyMap, "OPENAI_MODEL", "gpt-4o"),
       "MEMORY_PERSIST_DIRECTORY", <<".", "/", "d", "/", "/", "e">>),
   Put(Put(EmptyMap, "MAX_TOKENS", <<"1", "5">>),
       "AGENT_MAX_EXECUTION_TIME", <<"5">>),
   Put(EmptyMap, "OPENAI_TEMPERATURE", <<"a">>)}

ProbeEnvs ==
  {EmptyMap}
    \cup {Put(EmptyMap, x, s) : x \in NumVars, s \in NumStrings}
    \cup {Put(EmptyMap, x, s) : x \in BoolVars, s \in BoolStrings}

\* The mapping a, updated with b.
Overlay(a, b) ==
  [v \in DOMAIN a \cup DOMAIN b |-> IF v \in DOMAIN b THEN b[v] ELSE a[v]]

InitCoerce ==
  /\ \E k \in KeyEnvs : \E side \in SideEnvs : \E probe \in ProbeEnvs :
       environ = Overlay(Overlay(k, side), probe)
  /\ dotenv = EmptyMap
  /\ pc = "start"
  /\ fields = EmptyMap
  /\ config = <<>>
  /\ error = NoError
  /\ loads = <<>>
  /\ writes = 0
  /\ procEnv = EmptyMap
  /\ importEnv = EmptyMap

NextImport ==
  \/ LoadDotenv
  \/ BuildOpenAI
  \/ BuildAgent
  \/ BuildMemory
  \/ BuildCost
  \/ GlobalLoad

SpecCoerce == InitCoerce /\ [][NextImport]_vars

\* ================================================================== claims
Set(e, x) == x \in DOMAIN e

IntOK(e, x) == ~Set(e, x) \/ ParseInt(e[x]).ok

FloatOK(e, x) == ~Set(e, x) \/ ParseFloat(e[x]).ok

KeyInvalid(e) ==
  \/ ~Set(e, "OPENAI_API_KEY")
  \/ e["OPENAI_API_KEY"] = ""
  \/ e["OPENAI_API_KEY"] = Sentinel

IterationsInRange(e) ==
  \/ ~Set(e, "AGENT_MAX_ITERATIONS")
  \/ /\ ParseInt(e["AGENT_MAX_ITERATIONS"]).ok
     /\ ParseInt(e["AGENT_MAX_ITERATIONS"]).val \in 1..50

\* Valid as the specification words it: the credential is present and is not
\* the placeholder, the iteration count is in [1, 50].
ValidAsWorded(e) ==
  /\ Set(e, "OPENAI_API_KEY")
  /\ e["OPENAI_API_KEY"] # Sentinel
  /\ IterationsInRange(e)

OtherNumbersOK(e) ==
  /\ FloatOK(e, "OPENAI_TEMPERATURE")
  /\ IntOK(e, "MAX_TOKENS")
  /\ IntOK(e, "AGENT_MAX_EXECUTION_TIME")
  /\ FloatOK(e, "MAX_COST_PER_REQUEST")

Valid(e) == ~KeyInvalid(e) /\ IterationsInRange(e) /\ OtherNumbersOK(e)

\* The aggregate the documentation promises for environment e: the coerced
\* value of each variable that is set, the documented default otherwise.
Expected(e) ==
  [openai |->
     [api_key |-> e["OPENAI_API_KEY"],
      model |-> IF Set(e, "OPENAI_MODEL") THEN e["OPENAI_MODEL"]
                ELSE "gpt-4-turbo-preview",
      temperature |->
        IF Set(e, "OPENAI_TEMPERATURE")
          THEN ParseFloat(e["OPENAI_TEMPERATURE"]).val ELSE Float(0, 0),
      max_tokens |->
        IF Set(e, "MAX_TOKENS") THEN ParseInt(e["MAX_TOKENS"]).val ELSE 4096],
   agent |->
     [max_iterations |->
        IF Set(e, "AGENT_MAX_ITERATIONS")
          THEN ParseInt(e["AGENT_MAX_ITERATIONS"]).val ELSE 10,
      max_execution_time |->
        IF Set(e, "AGENT_MAX_EXECUTION_TIME")
          THEN ParseInt(e["AGENT_MAX_EXECUTION_TIME"]).val ELSE 300,
      verbose |->
        IF Set(e, "AGENT_VERBOSE") THEN IsTrue(e["AGENT_VERBOSE"]) ELSE TRUE],
   memory |->
     [memory_type |-> IF Set(e, "MEMORY_TYPE") THEN e["MEMORY_TYPE"]
                      ELSE "chromadb",
      collection_name |->
        IF Set(e, "MEMORY_COLLECTION_NAME") THEN e["MEMORY_COLLECTION_NAME"]
        ELSE "agent_memory",
      persist_directory |->
        IF Set(e, "MEMORY_PERSIST_DIRECTORY")
          THEN PathOf(e["MEMORY_PERSIST_DIRECTORY"])
          ELSE [root |-> "",
                parts |-> << <<"d", "a", "t", "a">>,
                             <<"m", "e", "m", "o", "r", "y">> >>]],
   cost |->
     [max_cost_per_request |->
        IF Set(e, "MAX_COST_PER_REQUEST")
          THEN ParseFloat(e["MAX_COST_PER_REQUEST"]).val ELSE Float(1, 0),
      enable_cost_tracking |->
        IF Set(e, "ENABLE_COST_TRACKING")
          THEN IsTrue(e["ENABLE_COST_TRACKING"]) ELSE TRUE]]

ClassBody == {"openai", "agent", "memory", "cost"}

\* C1, as worded: from every environment with the credential present and not
\* the placeholder and the iteration count in [1, 50], the load at process
\* start succeeds and yields the coerced or default value of every field.
C1_ValidAsWordedLoads ==
  (pc # "start" /\ ValidAsWorded(importEnv)) =>
    /\ pc # "failed"
    /\ pc = "ready" => config = <<Expected(importEnv)>>

\* C1, amended: from every environment whose credential is present, non-empty
\* and not the placeholder, whose iteration count is absent or an integer in
\* [1, 50] and whose other numeric variables are absent or parseable, the load
\* at process start never fails and the global aggregate holds, field by
\* field, the coerced value of each set variable and the documented default
\* of each omitted one.
C1_ValidEnvironmentLoads ==
  (pc # "start" /\ Valid(importEnv)) =>
    /\ pc # "failed"
    /\ error = NoError
    /\ pc = "ready" => config = <<Expected(importEnv)>>

C1_Witness ==
  /\ pc = "ready"
  /\ Valid(importEnv)
  /\ Set(importEnv, "AGENT_MAX_ITERATIONS")
  /\ ~Set(importEnv, "AGENT_MAX_EXECUTION_TIME")
  /\ config[1].agent.max_execution_time = 300
  /\ config[1].agent.max_iterations = 5

\* C3, as worded: an absent, empty or placeholder credential ends construction
\* with the 'valid credential required' error, whatever the other variables.
C3_InvalidKeyRaisesKeyError ==
  (pc \notin {"start", "openai"} /\ KeyInvalid(importEnv)) =>
    /\ pc = "failed"
    /\ error = KeyError
    /\ config = <<>>

\* C3, amended: an absent, empty or placeholder credential ends construction
\* with no aggregate created, whatever the other variables; the error is the
\* 'valid credential required' one whenever OPENAI_TEMPERATURE and MAX_TOKENS
\* are absent or parseable (their float() / int() errors are raised first).
C3_InvalidKeyFails ==
  (pc \notin {"start", "openai"} /\ KeyInvalid(importEnv)) =>
    /\ pc = "failed"
    /\ config = <<>>
    /\ fields = EmptyMap
    /\ error # NoError
    /\ (FloatOK(importEnv, "OPENAI_TEMPERATURE") /\ IntOK(importEnv, "MAX_TOKENS"))
         => error = KeyError

C3_Witness ==
  /\ pc = "failed"
  /\ error = KeyError
  /\ Set(importEnv, "OPENAI_API_KEY")
  /\ importEnv["OPENAI_API_KEY"] = ""
  /\ Set(importEnv, "AGENT_MAX_ITERATIONS")

\* C4: with a valid credential and the other variables valid, construction
\* succeeds exactly when the integer AGENT_MAX_ITERATIONS is in [1, 50]:
\* '1' and '50' succeed; '0', '51' and the negative integers fail with the
\* iteration-count error.
C4_IterationsBoundary ==
  LET e == importEnv
      s == e["AGENT_MAX_ITERATIONS"]
      v == ParseInt(s).val
  IN  ( /\ pc \notin {"start", "openai", "agent"}
        /\ ~KeyInvalid(e)
        /\ OtherNumbersOK(e)
        /\ Set(e, "AGENT_MAX_ITERATIONS")
        /\ ParseInt(s).ok ) =>
        /\ (pc # "failed") <=> (1 <= v /\ v <= 50)
        /\ pc = "failed" => (error = IterationsError /\ config = <<>>)
        /\ pc = "ready" => config[1].agent.max_iterations = v
        /\ s \in {<<"1">>, <<"5", "0">>} => pc # "failed"
        /\ s \in {<<"0">>, <<"5", "1">>, <<"-", "1">>, <<"-", "5">>}
             => pc = "failed"
        /\ v < 0 => pc = "failed"

C4_Witness ==
  /\ pc = "ready"
  /\ Set(importEnv, "AGENT_MAX_ITERATIONS")
  /\ importEnv["AGENT_MAX_ITERATIONS"] = <<"5", "0">>
  /\ config[1].agent.max_iterations = 50

\* C5: an explicitly set MAX_TOKENS, OPENAI_TEMPERATURE,
\* AGENT_MAX_EXECUTION_TIME or MAX_COST_PER_REQUEST that does not parse as its
\* numeric type (the empty string included) makes construction fail: once
\* the class body has been run the import has failed, no aggregate exists,
\* and no default stands in for the value.
C5_UnparseableNumberFails ==
  LET e == importEnv
      unparseable ==
        {<<>>, <<"a">>, <<"-">>, <<".">>, <<"1", "a">>, <<"-", "-">>}
      bad ==
        \/ ~OtherNumbersOK(e)
        \/ \E x \in {"OPENAI_TEMPERATURE", "MAX_TOKENS",
                     "AGENT_MAX_EXECUTION_TIME", "MAX_COST_PER_REQUEST"} :
             Set(e, x) /\ e[x] \in unparseable
        \/ \E x \in {"MAX_TOKENS", "AGENT_MAX_EXECUTION_TIME"} :
             Set(e, x) /\ e[x] \in {<<"1", ".">>, <<".", "5">>}
  IN  bad =>
        /\ pc \notin {"class", "ready"}
        /\ config = <<>>
        /\ pc \notin {"start", "openai", "agent", "memory", "cost"}
             => (pc = "failed" /\ error # NoError /\ fields = EmptyMap)

C5_Witness ==
  /\ pc = "failed"
  /\ error = FloatError
  /\ ~KeyInvalid(importEnv)
  /\ FloatOK(importEnv, "OPENAI_TEMPERATURE")
  /\ Set(importEnv, "MAX_COST_PER_REQUEST")
  /\ importEnv["MAX_COST_PER_REQUEST"] = <<>>

\* The string s is 'true' up to the case of its letters.
SpellsTrue(s) ==
  /\ Len(s) = 4
  /\ s[1] \in {"t", "T"}
  /\ s[2] \in {"r", "R"}
  /\ s[3] \in {"u", "U"}
  /\ s[4] \in {"e", "E"}

\* C9: each boolean field is true exactly when its variable is absent or
\* spells 'true' in any case; every other string ('false', '1', 'yes', the
\* empty string) gives false, and no string of a boolean variable makes
\* construction fail.
C9_BooleanCoercion ==
  LET e == importEnv
      want(x) == ~Set(e, x) \/ SpellsTrue(e[x])
  IN  /\ pc = "ready" =>
           /\ config[1].agent.verbose = want("AGENT_VERBOSE")
           /\ config[1].cost.enable_cost_tracking = want("ENABLE_COST_TRACKING")
      /\ \A x \in BoolVars :
           (Set(e, x)
              /\ e[x] \in {<<>>, <<"1">>, <<"y", "e", "s">>,
                           <<"f", "a", "l", "s", "e">>,
                           <<"F", "A", "L", "S", "E">>}
              /\ pc = "ready")
             => /\ x = "AGENT_VERBOSE" => ~config[1].agent.verbose
                /\ x = "ENABLE_COST_TRACKING"
                     => ~config[1].cost.enable_cost_tracking
      /\ (pc # "start" /\ Valid(e)) => pc # "failed"

C9_Witness ==
  /\ pc = "ready"
  /\ Set(importEnv, "AGENT_VERBOSE")
  /\ importEnv["AGENT_VERBOSE"] = <<"T", "r", "u", "e">>
  /\ config[1].agent.verbose

\* The aggregates that exist: the module global and the results of load().
Aggregates ==
  {config[i] : i \in 1..Len(config)} \cup {loads[i].cfg : i \in 1..Len(loads)}

\* C2: every Config.load() call reads the environment as it is at the time of
\* the call: its result holds the values derived from that environment.
C2_LoadReadsCurrentEnvironment ==
  \A i \in 1..Len(loads) :
    Valid(loads[i].env) => loads[i].cfg = Expected(loads[i].env)

\* C6: no partial configuration: an aggregate that exists has its four
\* sub-records, a non-empty credential that is not the placeholder and an
\* iteration count in [1, 50]; after a failed coercion or validation neither
\* an aggregate nor the global instance exists.
C6_NoPartialConfiguration ==
  /\ \A a \in Aggregates :
       /\ DOMAIN a = ClassBody
       /\ a.openai.api_key # ""
       /\ a.openai.api_key # Sentinel
       /\ a.agent.max_iterations \in 1..50
  /\ config # <<>> => (pc = "ready" /\ DOMAIN fields = ClassBody)
  /\ (pc = "failed" \/ error # NoError) =>
       /\ pc = "failed"
       /\ error # NoError
       /\ config = <<>>
       /\ loads = <<>>
       /\ fields = EmptyMap

C6_Witness ==
  /\ pc = "failed"
  /\ error = IterationsError
  /\ ~KeyInvalid(importEnv)
  /\ config = <<>>

\* C7: loading is idempotent: a Config.load() call leaves the environment as
\* it was, and its result equals, field by field, the result of every earlier
\* call made in the same environment.
C7_LoadIdempotent ==
  [][Len(loads') > Len(loads) =>
       /\ environ' = environ
       /\ fields' = fields
       /\ \A i \in 1..Len(loads) :
            loads[i].env = environ => loads[i].cfg = loads'[Len(loads')].cfg]_vars

C7_Witness ==
  /\ Len(loads) = 2
  /\ loads[1].env = loads[2].env
  /\ loads[1].cfg = loads[2].cfg
  /\ environ = loads[2].env

\* C8: the global instance is bound once, by the import, and never changes
\* afterwards, whatever load() calls and environment changes follow.
C8_GlobalNeverChanges ==
  [][/\ config # <<>> => config' = config
     /\ config' # config => (pc = "class" /\ config = <<>>)]_vars

C8_Witness ==
  /\ config # <<>>
  /\ Len(loads) > 0
  /\ environ # importEnv
  /\ loads[Len(loads)].env = environ
  /\ Valid(environ)
  /\ config[1] # Expected(environ)

\* C10: load_dotenv() is additive: every variable set in the process
\* environment keeps its value, only the variables absent from it take the
\* value of the .env file, and the aggregate uses the process value of a
\* variable defined in both.
C10_DotenvAdditive ==
  pc # "start" =>
    /\ DOMAIN importEnv = DOMAIN procEnv \cup DOMAIN dotenv
    /\ \A x \in DOMAIN procEnv : importEnv[x] = procEnv[x]
    /\ \A x \in DOMAIN dotenv \ DOMAIN procEnv : importEnv[x] = dotenv[x]
    /\ pc = "ready" =>
         /\ Set(procEnv, "OPENAI_API_KEY")
              => config[1].openai.api_key = procEnv["OPENAI_API_KEY"]
         /\ Set(procEnv, "AGENT_MAX_ITERATIONS")
              => config[1].agent.max_iterations
                   = ParseInt(procEnv["AGENT_MAX_ITERATIONS"]).val
         /\ Set(procEnv, "AGENT_VERBOSE")
              => config[1].agent.verbose = IsTrue(procEnv["AGENT_VERBOSE"])
         /\ (~Set(procEnv, "OPENAI_API_KEY") /\ Set(dotenv, "OPENAI_API_KEY"))
              => config[1].openai.api_key = dotenv["OPENAI_API_KEY"]

C10_Witness ==
  /\ pc = "ready"
  /\ Set(procEnv, "OPENAI_API_KEY")
  /\ Set(dotenv, "OPENAI_API_KEY")
  /\ procEnv["OPENAI_API_KEY"] # dotenv["OPENAI_API_KEY"]
  /\ config[1].openai.api_key = "sk-env"

====
